---- MODULE Spec2Model ----
(***************************************************************************)
(* Model of src/main.py: the job supervisor (TelegramParserGUI), the       *)
(* interactive authenticator (TelegramParserThread.ensure_auth) and the    *)
(* four collectors (Members/Messages/Comments/Reactions ParserThread).     *)
(*                                                                         *)
(* The GUI thread and every worker thread are separate processes of the    *)
(* model.  A worker step runs from one point where the worker reads a      *)
(* field the GUI thread writes (is_running, auth_code, auth_password) or   *)
(* from the return of an awaited remote call, up to the next such point.   *)
(* The emit of finished_signal and of the error_signal of the except       *)
(* clause is a step of its own: the GUI thread may write is_running        *)
(* between the check that guards the emit and the emit.                    *)
(* Signals with a handler that changes state travel through sigQueue (Qt   *)
(* queued connections between threads).                                    *)
(***************************************************************************)
EXTENDS Integers, Sequences, FiniteSets, TLC

\* ------------------------------------------------------------------ bounds
MaxJobs == 2        \* thread objects created in one behaviour
MaxFlood == 1       \* FloodWaitError answers of the remote in one job
MaxAdmins == 1      \* admins the admin iteration yields
MaxOver == 1        \* users in a reactions response beyond the limit asked
MaxTokens == 4      \* pieces a link text of LinkSpec is made of

\* ------------------------------------------------------- program constants
ProgressEvery == 50

Jobs == 1..MaxJobs
Modes == {"members", "comments", "messages", "reactions"}

\* The numbers the user types into max_members_input.
Limits == {0, 1, ProgressEvery}

\* The numbers of participants/messages/replies the remote holds: a paginated
\* iteration ends after one of these, or at the limit asked.
ChatSizes == {0, 1, ProgressEvery}

\* ---------------------------------------------------------------- strings
\* A string is a sequence of one-character strings.
Digits == {"0", "1", "2", "3", "4", "5", "6", "7", "8", "9"}
HttpsPrefix == <<"h", "t", "t", "p", "s", ":", "/", "/", "t", ".", "m", "e", "/">>
TmePrefix == <<"t", ".", "m", "e", "/">>

IsPrefix(p, s) == Len(p) <= Len(s) /\ SubSeq(s, 1, Len(p)) = p

RECURSIVE Strip(_)
Strip(s) ==
    IF s = <<>> THEN s
    ELSE IF Head(s) = " " THEN Strip(Tail(s))
    ELSE IF s[Len(s)] = " " THEN Strip(SubSeq(s, 1, Len(s) - 1))
    ELSE s

\* str.replace(p, ""): the non-overlapping occurrences of p, left to right.
RECURSIVE Remove(_, _)
Remove(s, p) ==
    IF s = <<>> THEN s
    ELSE IF IsPrefix(p, s) THEN Remove(SubSeq(s, Len(p) + 1, Len(s)), p)
    ELSE <<Head(s)>> \o Remove(Tail(s), p)

\* str.split(c): never empty; "" splits into [""].
RECURSIVE Split(_, _)
Split(s, c) ==
    IF \A i \in 1..Len(s) : s[i] # c THEN <<s>>
    ELSE LET k == CHOOSE i \in 1..Len(s) : s[i] = c /\ \A h \in 1..(i - 1) : s[h] # c
         IN  <<SubSeq(s, 1, k - 1)>> \o Split(SubSeq(s, k + 1, Len(s)), c)

\* int(s) succeeds: decimal digits, with whitespace around them allowed (the
\* modelled alphabet holds no sign and no underscore).
IsInt(s) == LET t == Strip(s) IN t # <<>> /\ \A i \in 1..Len(t) : t[i] \in Digits

\* re.search(r"/\d+(?:\?.*)?$", link) is not None
IsPostLink(s) ==
    \E i \in 1..Len(s) :
        /\ s[i] = "/"
        /\ \E k \in (i + 1)..Len(s) :
              /\ \A h \in (i + 1)..k : s[h] \in Digits
              /\ (k = Len(s) \/ s[k + 1] = "?")

\* link.strip().replace("https://t.me/", "").replace("t.me/", "").split("/")
PostParts(link) == Split(Remove(Remove(Strip(link), HttpsPrefix), TmePrefix), "/")

\* parts[1].split("?")[0]
MsgIdStr(link) == Split(PostParts(link)[2], "?")[1]

\* MembersParserThread._clean_link
CleanLink(link) ==
    LET l1 == Strip(link)
        l2 == Remove(Remove(l1, HttpsPrefix), TmePrefix)
        l3 == IF l2 # <<>> /\ Head(l2) = "@" THEN Tail(l2) ELSE l2
        l4 == IF \E i \in 1..Len(l3) : l3[i] = "/" THEN Split(l3, "/")[1] ELSE l3
    IN  IF \E i \in 1..Len(l4) : l4[i] = "?" THEN Split(l4, "?")[1] ELSE l4

\* The texts of chat_link_input the model enumerates.
Links ==
    { <<"c">>,                                  \* a handle, no post id
      <<"c", "/", "4">>,                        \* <channel>/<digits>
      <<"t", ".", "m", "e", "/", "4">>,         \* passes IsPostLink, one part
      <<"c", "/", "x", "/", "4">> }             \* passes IsPostLink, parts[1] not a number

\* ------------------------------------------------------------------- state
VARIABLES
    parser_thread,   \* TelegramParserGUI.parser_thread: 0 (None) or a job
    start_btn,       \* start_btn.isEnabled()
    stop_btn,        \* stop_btn.isEnabled()
    guiPc,           \* where the GUI thread is: "idle", "stop_wait", "start_wait"
    pending,         \* the inputs start_parsing read before it waits
    created,         \* thread objects constructed so far
    sigQueue,        \* signals posted to the GUI thread, not yet handled
    job,             \* job[j]: the fields of thread object j and its position
    ev               \* what the last step emitted or did, in order

vars == <<parser_thread, start_btn, stop_btn, guiPc, pending,
          created, sigQueue, job, ev>>
guiVars == <<parser_thread, start_btn, stop_btn, guiPc, pending, created>>

\* A slot value: None, or what a dialog returned: "text" or "empty" (the
\* dialog was cancelled or left empty).  `for` is the job whose prompt the
\* user was answering (kept to tell values apart).
None == [t |-> "none", for |-> 0]
Answer(t, j) == [t |-> t, for |-> j]

NoInput == [mode |-> "members", link |-> <<>>, limit |-> 0]

\* TelegramParserThread.__init__ plus the locals of parse()/ensure_auth().
NewJob(m, l, lim) ==
    [ mode |-> m, link |-> l, limit |-> lim,
      client |-> "none",            \* "none", "disconnected", "connected"
      auth_code |-> None, auth_password |-> None,
      is_running |-> TRUE,
      thread |-> "new",             \* "new", "running", "terminating", "finished", "killed"
      pc |-> "parse",
      phone |-> None, code |-> None,
      floods |-> 0,
      admins |-> 0,                 \* len(admin_ids)
      adminsFailed |-> FALSE,       \* the admin iteration has raised
      flagged |-> 0,                \* records of parsed_data with 'Is Admin' set
      fetched |-> 0,                \* len(members) / len(messages) / len(comments)
      parsed |-> 0,                 \* len(parsed_data) / len(parsed)
      \* what the run has done so far
      nCompleted |-> 0, nFailed |-> 0,
      observed |-> FALSE,           \* the worker has read is_running as False
      unanswered |-> 0,             \* own prompts emitted, slot value not yet consumed
      authOk |-> FALSE,             \* ensure_auth has returned True
      resolved |-> FALSE,           \* get_entity has returned
      authCalls |-> {},             \* calls and prompts of the current ensure_auth
      escaped |-> FALSE ]           \* an exception left parse()

\* A thread object that does not exist (not yet constructed, or unreferenced
\* after its run ended).
NoJob == [NewJob("members", <<>>, 0) EXCEPT !.thread = "absent", !.pc = "absent"]

Init ==
    /\ parser_thread = 0
    /\ start_btn = TRUE
    /\ stop_btn = FALSE
    /\ guiPc = "idle"
    /\ pending = NoInput
    /\ created = 0
    /\ sigQueue = <<>>
    /\ job = [j \in Jobs |-> NoJob]
    /\ ev = <<>>

\* QThread.isRunning()
isRunning(j) == job[j].thread \in {"running", "terminating"}

Min(a, b) == IF a < b THEN a ELSE b
Max(a, b) == IF a > b THEN a ELSE b
Count(es, k) == Cardinality({i \in DOMAIN es : es[i] = k})

\* ------------------------------------------------------------ signals
\* pyqtSignal declarations of TelegramParserThread.
\* "status_me" is the status line of ensure_auth that carries get_me().
StatusKinds == {"status", "status_me"}
ProgressKinds == StatusKinds \cup {"progress", "code", "password"}
TerminalKinds == {"finished", "error"}
PromptKinds == {"code", "password"}
\* The signals whose slot changes modelled state (connected in start_parsing).
HandledKinds == {"code", "password", "finished", "error"}
CallKinds == {"call_connect", "call_is_authorized", "call_get_me", "call_send_code",
              "call_sign_in", "call_sign_in_password", "call_get_entity",
              "call_full_channel", "call_iter_admins", "call_iter", "call_get_sender",
              "call_reactions", "call_disconnect"}

\* What an awaited call answered when it did not simply return: an exception,
\* FloodWaitError, SessionPasswordNeededError.  It is the first entry of the
\* step; "raised" further on is an exception of the code after the call.
RemoteKinds == {"raised", "flood", "password_needed"}

IsHandled(e) == e.kind \in HandledKinds

\* The positions inside ensure_auth().
AuthPcs == {"connect", "is_auth", "get_me", "wait_phone", "chk_phone", "clr_phone",
            "send_code", "flood_sleep", "wait_code", "chk_code", "clr_code",
            "sign_in", "wait_pwd", "chk_pwd", "sign_in_pwd"}

\* A thread object whose run has ended and that self.parser_thread does not
\* name is referenced by nothing: it is freed at once.
Unreferenced(j, r) == r.thread \in {"finished", "killed"} /\ parser_thread # j

\* The value a call hands to the remote, and the record count of finished.
CallValue(r, k) ==
    CASE k = "call_send_code" -> r.phone
      [] k = "call_sign_in" -> r.code
      [] k = "call_sign_in_password" -> r.auth_password
      [] OTHER -> None

\* One step of worker j: its fields become r, it emitted the signals and made
\* the remote calls of es, in that order.
WorkerStep(j, r, es) ==
    LET done == {es[i] : i \in DOMAIN es}
        r2 == [r EXCEPT !.nCompleted = Min(2, @ + Count(es, "finished")),
                        !.nFailed = Min(2, @ + Count(es, "error")),
                        !.unanswered = @ + Count(es, "code") + Count(es, "password"),
                        !.authCalls = IF r.pc \in AuthPcs
                                      THEN @ \cup (done \cap (CallKinds \cup PromptKinds))
                                      ELSE {}]
        posted == [i \in DOMAIN es |-> [job |-> j, kind |-> es[i]]]
    IN  /\ job' = [job EXCEPT ![j] = IF Unreferenced(j, r2) THEN NoJob ELSE r2]
        /\ sigQueue' = sigQueue \o SelectSeq(posted, IsHandled)
        /\ ev' = [i \in DOMAIN es |->
                    [job |-> j, kind |-> es[i], val |-> CallValue(job[j], es[i]),
                     n |-> IF es[i] = "finished" THEN job[j].parsed ELSE 0]]
        /\ UNCHANGED guiVars

\* A continuation: the fields after it and what it emitted.
Go(r, es) == [r |-> r, es |-> es]
After(es, k) == [r |-> k.r, es |-> es \o k.es]

\* -------------------------------------------------- TelegramParserThread
\* Once parse() is in its except or finally clause nothing reads its locals,
\* the locals of ensure_auth(), link or limit again, and the collectors no
\* longer differ: they are dropped from the state.
Leave(r) == [r EXCEPT !.phone = None, !.code = None, !.floods = 0,
                      !.admins = 0, !.adminsFailed = FALSE, !.flagged = 0,
                      !.fetched = 0, !.parsed = 0, !.authCalls = {},
                      !.mode = "members", !.link = <<>>, !.limit = 0]

\* Variant of Cleanup: the client is left as it is.
CleanupSkipsDisconnect(r) == Go([Leave(r) EXCEPT !.pc = "done", !.thread = "finished"], <<>>)

\* cleanup(), called from the finally of parse(); run() returns after it.
Cleanup(r) ==
    IF r.client = "connected"
    THEN Go([Leave(r) EXCEPT !.pc = "disconnect"], <<"call_disconnect">>)
    ELSE Go([Leave(r) EXCEPT !.pc = "done", !.thread = "finished"], <<>>)

\* An exception reaches the except clause of parse(), which reads is_running.
Raise(r) == Go([Leave(r) EXCEPT !.pc = "except"], <<"raised">>)

\* Variant of EnsureAuth: ensure_client misses the is_connected() test.
EnsureAuthReconnects(r) ==
    Go([r EXCEPT !.client = IF @ = "none" THEN "disconnected" ELSE @,
                 !.pc = "connect", !.authCalls = {}],
       <<"call_connect">>)

\* ensure_client(), then the is_user_authorized() call of ensure_auth().
EnsureAuth(r) ==
    LET c == IF r.client = "none" THEN "disconnected" ELSE r.client
    IN  IF c # "connected"
        THEN Go([r EXCEPT !.client = c, !.pc = "connect", !.authCalls = {}],
                <<"call_connect">>)
        ELSE Go([r EXCEPT !.pc = "is_auth", !.authCalls = {}],
                <<"call_is_authorized">>)

\* The worker reads is_running and finds it False.
Observe(r) == [r EXCEPT !.observed = TRUE]

\* Comments/Reactions: if len(parts) < 2: error_signal.emit(...); return
InvalidLink(r) == After(<<"error">>, Cleanup(r))

\* What parse() does once ensure_auth() has returned True, up to its next
\* await or read of is_running.
AfterAuth(r0) ==
    LET r == [r0 EXCEPT !.authOk = TRUE, !.phone = None, !.code = None, !.floods = 0]
    IN  CASE r.mode = "members" -> Go([r EXCEPT !.pc = "m_chk"], <<>>)
          [] r.mode = "messages" -> Go([r EXCEPT !.pc = "entity"], <<"call_get_entity">>)
          [] OTHER ->
               IF Len(PostParts(r.link)) < 2
               THEN InvalidLink(r)
               ELSE IF ~IsInt(MsgIdStr(r.link))
               THEN Raise(r)
               ELSE Go([r EXCEPT !.pc = "entity"], <<"call_get_entity">>)

Act(j, p) == isRunning(j) /\ job[j].pc = p

\* parse(): the first check of is_running, the first status line, ensure_auth().
ParseStart(j) ==
    /\ Act(j, "parse")
    /\ LET r == job[j]
           k == IF ~r.is_running THEN Cleanup(Observe(r))
                ELSE IF r.mode = "reactions" THEN EnsureAuth(r)
                ELSE After(<<"status">>, EnsureAuth(r))
       IN  WorkerStep(j, k.r, k.es)

\* await self.client.connect()
ConnectReturns(j, ok) ==
    /\ Act(j, "connect")
    /\ LET r == job[j]
           k == IF ok THEN Go([r EXCEPT !.client = "connected", !.pc = "is_auth"],
                              <<"call_is_authorized">>)
                ELSE Raise(r)
       IN  WorkerStep(j, k.r, k.es)

\* Variant of PromptPhone: the emit stands inside the wait loop and runs again
\* at the next poll.
PromptPhoneInLoop(r) == Go([r EXCEPT !.pc = "wait_phone"], <<"code", "code">>)

\* self.auth_code_needed.emit(): the prompt for the phone number
PromptPhone(r) == Go([r EXCEPT !.pc = "wait_phone"], <<"code">>)

\* await self.client.is_user_authorized()
IsAuthorizedReturns(j, res) ==
    /\ Act(j, "is_auth")
    /\ LET r == job[j]
           k == CASE res = "yes" -> Go([r EXCEPT !.pc = "get_me"], <<"call_get_me">>)
                  [] res = "no" -> PromptPhone(r)
                  [] OTHER -> Raise(r)
       IN  WorkerStep(j, k.r, k.es)

\* Variant of Authorized: the return True is missing, the phone prompt follows.
AuthorizedFallsThrough(r) == Go([r EXCEPT !.pc = "wait_phone"], <<"status_me", "code">>)

\* The status line with the name of get_me(); return True
Authorized(r) == After(<<"status_me">>, AfterAuth(r))

\* await self.client.get_me() returns or raises
GetMeReturns(j, ok) ==
    /\ Act(j, "get_me")
    /\ LET r == job[j]
           k == IF ok THEN Authorized(r)
                ELSE Raise(r)
       IN  WorkerStep(j, k.r, k.es)

\* while self.auth_code is None and self.is_running: the loop is left
WaitCodeExit(r) == r.auth_code # None \/ ~r.is_running
WaitCode(j) ==
    /\ isRunning(j) /\ job[j].pc \in {"wait_phone", "wait_code"}
    /\ WaitCodeExit(job[j])
    /\ LET r == job[j]
           r1 == IF r.auth_code = None THEN Observe(r) ELSE r
       IN  WorkerStep(j, [r1 EXCEPT !.pc = IF r.pc = "wait_phone" THEN "chk_phone"
                                           ELSE "chk_code"], <<>>)

\* Variant of Cancelled: the check of is_running is missing.
CancelledNever(r) == FALSE

\* if not self.is_running: return False
Cancelled(r) == ~r.is_running

\* ... then phone = self.auth_code.strip() / code = self.auth_code.strip()
CheckCode(j) ==
    /\ isRunning(j) /\ job[j].pc \in {"chk_phone", "chk_code"}
    /\ LET r == job[j]
           k == IF Cancelled(r) THEN Cleanup(Observe(r))
                ELSE IF r.auth_code = None      \* None.strip() raises AttributeError
                THEN Raise(r)
                ELSE IF r.pc = "chk_phone"
                THEN Go([r EXCEPT !.phone = r.auth_code, !.pc = "clr_phone"], <<>>)
                ELSE Go([r EXCEPT !.code = r.auth_code, !.pc = "clr_code"], <<>>)
       IN  WorkerStep(j, k.r, k.es)

\* self.auth_code = None, then the send_code_request / sign_in call
ClearCode(j) ==
    /\ isRunning(j) /\ job[j].pc \in {"clr_phone", "clr_code"}
    /\ LET r == job[j]
           k == IF r.pc = "clr_phone"
                THEN Go([r EXCEPT !.auth_code = None, !.pc = "send_code",
                                  !.unanswered = @ - 1],
                        <<"status", "call_send_code">>)
                ELSE Go([r EXCEPT !.auth_code = None, !.pc = "sign_in",
                                  !.unanswered = @ - 1],
                        <<"call_sign_in">>)
       IN  WorkerStep(j, k.r, k.es)

\* Variant of SendCodeFlood: FloodWaitError is handled like any exception.
SendCodeFloodFails(r) == After(<<"flood", "error">>, Cleanup(r))

\* except FloodWaitError as e: the status line, then asyncio.sleep(e.seconds)
SendCodeFlood(r) ==
    Go([r EXCEPT !.pc = "flood_sleep", !.floods = @ + 1], <<"flood", "status">>)

\* Variant of SendCodeError: the return False is missing, the code prompt follows.
SendCodeErrorNoReturn(r) == Go([r EXCEPT !.pc = "wait_code"], <<"raised", "error", "code">>)

\* except Exception as e: error_signal.emit(...); return False
SendCodeError(r) == After(<<"raised", "error">>, Cleanup(r))

\* await self.client.send_code_request(phone) and its except clauses
SendCodeReturns(j, res) ==
    /\ Act(j, "send_code")
    /\ res = "flood" => job[j].floods < MaxFlood
    /\ LET r == job[j]
           k == CASE res = "ok" -> Go([r EXCEPT !.pc = "wait_code"], <<"code">>)
                  [] res = "flood" -> SendCodeFlood(r)
                  [] OTHER -> SendCodeError(r)
       IN  WorkerStep(j, k.r, k.es)

\* await asyncio.sleep(e.seconds); return await self.ensure_auth()
FloodSleepReturns(j) ==
    /\ Act(j, "flood_sleep")
    /\ LET k == EnsureAuth(job[j])
       IN  WorkerStep(j, k.r, k.es)

\* except SessionPasswordNeededError: the status line and the password prompt
PasswordNeeded(r) ==
    Go([r EXCEPT !.pc = "wait_pwd"], <<"password_needed", "status", "password">>)

\* Variant of SignInError: the exception is swallowed without an error signal.
SignInErrorSilent(r) == After(<<"raised">>, Cleanup(r))

\* except Exception as e (of sign_in with the code): error; return False
SignInError(r) == After(<<"raised", "error">>, Cleanup(r))

\* Variant of PasswordError: the password is asked for again.
PasswordErrorReprompt(r) == Go([r EXCEPT !.pc = "wait_pwd"], <<"raised", "error", "password">>)

\* except Exception as e (of sign_in with the password): error; return False
PasswordError(r) == After(<<"raised", "error">>, Cleanup(r))

\* await self.client.sign_in(phone=phone, code=code) and its except clauses
SignInReturns(j, res) ==
    /\ Act(j, "sign_in")
    /\ LET r == job[j]
           k == CASE res = "ok" -> After(<<"status">>, AfterAuth(r))
                  [] res = "password" -> PasswordNeeded(r)
                  [] OTHER -> SignInError(r)
       IN  WorkerStep(j, k.r, k.es)

\* while self.auth_password is None and self.is_running: the loop is left
WaitPassword(j) ==
    /\ Act(j, "wait_pwd")
    /\ job[j].auth_password # None \/ ~job[j].is_running
    /\ LET r == job[j]
           r1 == IF r.auth_password = None THEN Observe(r) ELSE r
       IN  WorkerStep(j, [r1 EXCEPT !.pc = "chk_pwd"], <<>>)

\* if not self.is_running: return False; else sign_in(password=self.auth_password)
CheckPassword(j) ==
    /\ Act(j, "chk_pwd")
    /\ LET r == job[j]
           k == IF Cancelled(r) THEN Cleanup(Observe(r))
                ELSE Go([r EXCEPT !.pc = "sign_in_pwd", !.unanswered = @ - 1],
                        <<"call_sign_in_password">>)
       IN  WorkerStep(j, k.r, k.es)

\* await self.client.sign_in(password=...) and its except clause
SignInPasswordReturns(j, ok) ==
    /\ Act(j, "sign_in_pwd")
    /\ LET r == job[j]
           k == IF ok THEN After(<<"status">>, AfterAuth(r))
                ELSE PasswordError(r)
       IN  WorkerStep(j, k.r, k.es)

\* ------------------------------------------------------------ collectors
\* MembersParserThread.parse: if not self.is_running: return; status; get_entity
MembersCheck(j) ==
    /\ Act(j, "m_chk")
    /\ LET r == job[j]
           k == IF Cancelled(r) THEN Cleanup(Observe(r))
                ELSE Go([r EXCEPT !.pc = "entity"], <<"status", "call_get_entity">>)
       IN  WorkerStep(j, k.r, k.es)

\* The transform pass starts: the first read of is_running (members) or the
\* first get_sender call (messages, comments); an empty buffer goes to the end.
StartTransform(r) ==
    IF r.fetched = 0 THEN Go([r EXCEPT !.pc = "fin"], <<>>)
    ELSE IF r.mode = "members" THEN Go([r EXCEPT !.pc = "xform"], <<>>)
    ELSE Go([r EXCEPT !.pc = "sender"], <<"call_get_sender">>)

\* Variant of EntityError: the return is missing, the admin iteration follows.
EntityErrorGoesOn(r) ==
    Go([r EXCEPT !.pc = "admins"], <<"raised", "error", "call_iter_admins">>)

\* MembersParserThread.parse: except Exception as e around get_entity:
\* error_signal.emit(...); return
EntityError(r) == After(<<"raised", "error">>, Cleanup(r))

\* await self.client.get_entity(...)
EntityReturns(j, res) ==
    /\ Act(j, "entity")
    /\ LET r == [job[j] EXCEPT !.resolved = (res # "raise")]
           k == CASE res = "raise" ->
                       IF r.mode = "members" THEN EntityError(r)
                       ELSE Raise(r)
                  [] r.mode = "members" ->
                       IF res = "channel"
                       THEN Go([r EXCEPT !.pc = "full"], <<"call_full_channel">>)
                       ELSE Go([r EXCEPT !.pc = "admins"],
                               <<"status", "status", "call_iter_admins">>)
                  [] r.mode = "reactions" ->
                       Go([r EXCEPT !.pc = "react"], <<"status", "call_reactions">>)
                  [] OTHER ->
                       Go([r EXCEPT !.pc = "fetch"], <<"status", "status", "call_iter">>)
       IN  WorkerStep(j, k.r, k.es)

\* await self.client(GetFullChannelRequest(channel=entity))
FullChannelReturns(j, ok) ==
    /\ Act(j, "full")
    /\ LET r == job[j]
           k == IF ok THEN Go([r EXCEPT !.pc = "admins"],
                              <<"status", "status", "call_iter_admins">>)
                ELSE Raise(r)
       IN  WorkerStep(j, k.r, k.es)

\* async for adm in iter_participants(filter=ChannelParticipantsAdmins)
AdminsNext(j, res) ==
    /\ Act(j, "admins")
    /\ res = "item" => job[j].admins < MaxAdmins
    /\ LET r == job[j]
           k == CASE res = "item" -> Go([r EXCEPT !.admins = @ + 1], <<>>)
                  [] res = "end" -> Go([r EXCEPT !.pc = "fetch"], <<"call_iter">>)
                  [] OTHER ->               \* except Exception: pass
                       Go([r EXCEPT !.adminsFailed = TRUE, !.pc = "fetch"],
                          <<"raised", "call_iter">>)
       IN  WorkerStep(j, k.r, k.es)

\* async for ... in iter_participants / iter_messages: the next item arrives,
\* the iteration ends, or it raises.
FetchNext(j, res) ==
    /\ Act(j, "fetch")
    /\ res = "item" => job[j].fetched < job[j].limit
    /\ res = "end" => job[j].fetched \in ChatSizes \cup {job[j].limit}
    /\ LET r == job[j]
           k == CASE res = "item" -> Go([r EXCEPT !.pc = "item"], <<>>)
                  [] res = "end" -> StartTransform(r)
                  [] OTHER -> Raise(r)
       IN  WorkerStep(j, k.r, k.es)

\* if not self.is_running: break; append; progress every 50
ItemCheck(j) ==
    /\ Act(j, "item")
    /\ LET r == job[j]
           k == IF Cancelled(r) THEN StartTransform(Observe(r))
                ELSE Go([r EXCEPT !.fetched = @ + 1, !.pc = "fetch"],
                        IF (r.fetched + 1) % ProgressEvery = 0
                        THEN <<"status", "progress">> ELSE <<>>)
       IN  WorkerStep(j, k.r, k.es)

\* 'Is Admin': 'Да' if user.id in admin_ids else 'Нет'
IsAdminFlag(r, inAdmins) == inAdmins

\* MembersParserThread.parse: for idx, user in enumerate(members).  inAdmins:
\* the id of this user is one of those admin_ids holds (the users of members
\* are distinct).
Transform(j, inAdmins) ==
    /\ Act(j, "xform")
    /\ inAdmins => (job[j].is_running /\ job[j].flagged < job[j].admins)
    /\ LET r == job[j]
           k == IF Cancelled(r) THEN Go([Observe(r) EXCEPT !.pc = "fin"], <<>>)
                ELSE Go([r EXCEPT !.parsed = @ + 1,
                                  !.flagged = IF IsAdminFlag(r, inAdmins) THEN @ + 1 ELSE @,
                                  !.pc = IF r.parsed + 1 = r.fetched THEN "fin" ELSE "xform"],
                        IF (r.parsed + 1) % ProgressEvery = 0
                        THEN <<"status", "progress">> ELSE <<>>)
       IN  WorkerStep(j, k.r, k.es)

\* Messages/Comments: sender = await m.get_sender(); parsed.append(...)
SenderReturns(j, ok) ==
    /\ Act(j, "sender")
    /\ LET r == job[j]
           k == IF ~ok THEN Raise(r)
                ELSE IF r.parsed + 1 = r.fetched
                THEN Go([r EXCEPT !.parsed = @ + 1, !.pc = "fin"], <<>>)
                ELSE Go([r EXCEPT !.parsed = @ + 1], <<"call_get_sender">>)
       IN  WorkerStep(j, k.r, k.es)

\* ReactionsParserThread.parse: for user in response.users: ...
\*     parsed.append(...); if len(parsed) >= self.limit: break
ReactionRecords(users, limit) ==
    IF users = 0 THEN 0 ELSE Min(users, Max(limit, 1))

\* except Exception as e around the request: error_signal.emit(...); return
ReactionsError(r) == After(<<"raised", "error">>, Cleanup(r))

\* await self.client(GetMessageReactionsListRequest(...)) and the loop after it
ReactionsReturns(j, ok, users) ==
    /\ Act(j, "react")
    /\ users \in 0..(job[j].limit + MaxOver)
    /\ LET r == job[j]
           k == IF ok
                THEN Go([r EXCEPT !.parsed = ReactionRecords(users, r.limit), !.pc = "fin"],
                        <<>>)
                ELSE ReactionsError(r)
       IN  WorkerStep(j, k.r, k.es)

\* Variant of EmitsFinished: the check of is_running is missing.
EmitsFinishedAlways(r) == TRUE

\* if self.is_running: self.finished_signal.emit(title, parsed)
EmitsFinished(r) == r.is_running
Finish(j) ==
    /\ Act(j, "fin")
    /\ LET r == job[j]
           k == IF EmitsFinished(r) THEN Go([r EXCEPT !.pc = "emit_fin"], <<>>)
                ELSE Cleanup(Observe(r))
       IN  WorkerStep(j, k.r, k.es)

\* ... self.finished_signal.emit(title, parsed), then the finally clause
EmitFinished(j) ==
    /\ Act(j, "emit_fin")
    /\ LET k == After(<<"finished">>, Cleanup(job[j]))
       IN  WorkerStep(j, k.r, k.es)

\* except Exception as e: if self.is_running:
EmitsError(r) == r.is_running
Except(j) ==
    /\ Act(j, "except")
    /\ LET r == job[j]
           k == IF EmitsError(r) THEN Go([r EXCEPT !.pc = "emit_err"], <<>>)
                ELSE Cleanup(Observe(r))
       IN  WorkerStep(j, k.r, k.es)

\* ... self.error_signal.emit(f"Ошибка: {e}"), then the finally clause
EmitError(j) ==
    /\ Act(j, "emit_err")
    /\ LET k == After(<<"error">>, Cleanup(job[j]))
       IN  WorkerStep(j, k.r, k.es)

\* await self.client.disconnect(); run() returns, or the exception leaves it
DisconnectReturns(j, ok) ==
    /\ Act(j, "disconnect")
    /\ LET r == job[j]
       IN  WorkerStep(j, [r EXCEPT !.client = IF ok THEN "disconnected" ELSE @,
                                   !.escaped = ~ok,
                                   !.pc = "done", !.thread = "finished"], <<>>)

\* A terminated thread has no position and no locals.
Killed(r) == [Leave(r) EXCEPT !.thread = "killed", !.pc = "killed"]

\* QThread.terminate() takes effect some time after the call.
Dies(j) ==
    /\ job[j].thread = "terminating"
    /\ job' = [job EXCEPT ![j] = IF parser_thread # j THEN NoJob ELSE Killed(@)]
    /\ ev' = <<>>
    /\ UNCHANGED <<guiVars, sigQueue>>

Worker(j) ==
    \/ ParseStart(j)
    \/ \E ok \in BOOLEAN : ConnectReturns(j, ok)
    \/ \E res \in {"yes", "no", "raise"} : IsAuthorizedReturns(j, res)
    \/ \E ok \in BOOLEAN : GetMeReturns(j, ok)
    \/ WaitCode(j)
    \/ CheckCode(j)
    \/ ClearCode(j)
    \/ \E res \in {"ok", "flood", "error"} : SendCodeReturns(j, res)
    \/ FloodSleepReturns(j)
    \/ \E res \in {"ok", "password", "error"} : SignInReturns(j, res)
    \/ WaitPassword(j)
    \/ CheckPassword(j)
    \/ \E ok \in BOOLEAN : SignInPasswordReturns(j, ok)
    \/ MembersCheck(j)
    \/ \E res \in {"channel", "chat", "raise"} : EntityReturns(j, res)
    \/ \E ok \in BOOLEAN : FullChannelReturns(j, ok)
    \/ \E res \in {"item", "end", "raise"} : AdminsNext(j, res)
    \/ \E res \in {"item", "end", "raise"} : FetchNext(j, res)
    \/ ItemCheck(j)
    \/ \E inAdmins \in BOOLEAN : Transform(j, inAdmins)
    \/ \E ok \in BOOLEAN : SenderReturns(j, ok)
    \/ \E ok \in BOOLEAN, users \in 0..(job[j].limit + MaxOver) : ReactionsReturns(j, ok, users)
    \/ Finish(j)
    \/ EmitFinished(j)
    \/ Except(j)
    \/ EmitError(j)
    \/ \E ok \in BOOLEAN : DisconnectReturns(j, ok)
    \/ Dies(j)

\* ------------------------------------------------------ TelegramParserGUI
\* What the user has entered when start_btn is clicked: whether the required
\* fields are filled, whether max_members_input is a number and which, the
\* mode and the link.  The handle-only modes pass the link to get_entity, whose
\* answer the model leaves open: one link stands for all of them there.  The
\* long runs (a limit of ProgressEvery) are those of the members and reactions
\* collectors; the per-item loop of the other two is the same code shape.
Forms ==
    {f \in [filled : BOOLEAN, number : BOOLEAN, limit : Limits, mode : Modes, link : Links] :
        /\ f.mode \in {"members", "messages"} => f.link = <<"c">>
        /\ f.limit > 1 => f.mode \in {"members", "reactions"}
        /\ ~f.number => f.limit = 0}

Warn(w) == <<[job |-> 0, kind |-> w, val |-> None, n |-> 0]>>

\* terminate() takes effect within a few instructions of the worker; the user
\* is slower than that: no click arrives while a terminated thread still runs.
NoneTerminating == \A j \in Jobs : job[j].thread # "terminating"

\* start_parsing from reset_ui_before_start on: the post-link check, the new
\* thread object, the signal connections, start().
StartRest(m, l, lim) ==
    IF m \in {"comments", "reactions"} /\ ~IsPostLink(Strip(l))
    THEN /\ start_btn' = TRUE
         /\ stop_btn' = FALSE
         /\ ev' = Warn("warn_not_post")
         /\ UNCHANGED <<parser_thread, created, job>>
    ELSE /\ created' = created + 1
         /\ parser_thread' = created + 1
         /\ job' = [j \in Jobs |->
                       IF j = created + 1
                       THEN [NewJob(m, Strip(l), lim) EXCEPT !.thread = "running"]
                       ELSE IF j = parser_thread /\ ~isRunning(j) THEN NoJob
                       ELSE job[j]]
         /\ start_btn' = FALSE
         /\ stop_btn' = TRUE
         /\ ev' = <<>>

\* A click on start_btn: start_parsing up to self.parser_thread.wait(3000).
StartClick(f) ==
    /\ guiPc = "idle"
    /\ NoneTerminating
    /\ start_btn
    /\ created < MaxJobs
    /\ IF ~f.filled
       THEN ev' = Warn("warn_fields") /\ UNCHANGED <<guiVars, sigQueue, job>>
       ELSE IF ~f.number
       THEN ev' = Warn("warn_number") /\ UNCHANGED <<guiVars, sigQueue, job>>
       ELSE IF parser_thread # 0 /\ isRunning(parser_thread)
       THEN /\ job' = [job EXCEPT ![parser_thread].is_running = FALSE]
            /\ guiPc' = "start_wait"
            /\ pending' = [mode |-> f.mode, link |-> f.link, limit |-> f.limit]
            /\ ev' = <<>>
            /\ UNCHANGED <<parser_thread, start_btn, stop_btn, created, sigQueue>>
       ELSE /\ StartRest(f.mode, f.link, f.limit)
            /\ UNCHANGED <<guiPc, pending, sigQueue>>

\* self.parser_thread.wait(3000) returns: the old thread has ended, or the
\* three seconds have passed.  Its result is not read.
StartWaitReturns ==
    /\ guiPc = "start_wait"
    /\ StartRest(pending.mode, pending.link, pending.limit)
    /\ guiPc' = "idle"
    /\ pending' = NoInput
    /\ UNCHANGED <<sigQueue>>

\* A click on stop_btn: stop_parsing up to self.parser_thread.wait(5000).
StopClick ==
    /\ guiPc = "idle"
    /\ NoneTerminating
    /\ stop_btn
    /\ ev' = <<>>
    /\ IF parser_thread # 0 /\ isRunning(parser_thread)
       THEN /\ job' = [job EXCEPT ![parser_thread].is_running = FALSE]
            /\ guiPc' = "stop_wait"
            /\ UNCHANGED <<parser_thread, start_btn, stop_btn, pending,
                           created, sigQueue>>
       ELSE /\ start_btn' = TRUE
            /\ stop_btn' = FALSE
            /\ UNCHANGED <<parser_thread, guiPc, pending, created,
                           sigQueue, job>>

\* wait(5000) returns True: the thread has ended; reset_ui().
StopWaitReturns ==
    /\ guiPc = "stop_wait"
    /\ ~isRunning(parser_thread)
    /\ guiPc' = "idle"
    /\ start_btn' = TRUE
    /\ stop_btn' = FALSE
    /\ ev' = <<>>
    /\ UNCHANGED <<parser_thread, pending, created, sigQueue, job>>

\* wait(5000) returns False: terminate(); reset_ui().  The thread is gone at
\* once or some time later.
StopWaitTimeout(now) ==
    /\ guiPc = "stop_wait"
    /\ isRunning(parser_thread)
    /\ job' = [job EXCEPT ![parser_thread] =
                   IF now THEN Killed(@) ELSE [@ EXCEPT !.thread = "terminating"]]
    /\ guiPc' = "idle"
    /\ start_btn' = TRUE
    /\ stop_btn' = FALSE
    /\ ev' = <<>>
    /\ UNCHANGED <<parser_thread, pending, created, sigQueue>>

\* The GUI thread handles the oldest posted signal: handle_auth_code,
\* handle_auth_password, parsing_finished or parsing_error.  A dialog and the
\* write after it are one step: what the nested event loop of the modal
\* dialog could handle meanwhile is handled after it.
HandleSignal(typed) ==
    /\ guiPc = "idle"
    /\ sigQueue # <<>>
    /\ LET s == Head(sigQueue)
           v == Answer(IF typed THEN "text" ELSE "empty", s.job)
       IN  /\ sigQueue' = Tail(sigQueue)
           /\ ev' = <<>>
           /\ CASE s.kind = "code" ->
                     /\ job' = [job EXCEPT ![parser_thread].auth_code = v]
                     /\ UNCHANGED guiVars
                [] s.kind = "password" ->
                     /\ job' = [job EXCEPT ![parser_thread].auth_password = v]
                     /\ UNCHANGED guiVars
                [] OTHER ->     \* parsing_finished, parsing_error: reset_ui()
                     /\ start_btn' = TRUE
                     /\ stop_btn' = FALSE
                     /\ UNCHANGED <<parser_thread, guiPc, pending, created, job>>

Gui ==
    \/ \E f \in Forms : StartClick(f)
    \/ StartWaitReturns
    \/ StopClick
    \/ StopWaitReturns
    \/ \E now \in BOOLEAN : StopWaitTimeout(now)
    \/ \E typed \in BOOLEAN : HandleSignal(typed)

Next ==
    \/ Gui
    \/ \E j \in Jobs : Worker(j)

Spec == Init /\ [][Next]_vars

\* ------------------------------------------------------------- LinkSpec
\* The link functions on their own: the text of chat_link_input is any
\* concatenation of at most MaxTokens of these pieces.
LinkTokens ==
    { <<"c">>, <<"@">>, <<"/">>, <<"?">>, <<"4">>, <<" ">>,
      TmePrefix, HttpsPrefix, <<"t", ".", "m">>, <<"e", "/">> }

RECURSIVE Texts(_)
Texts(n) ==
    IF n = 0 THEN {<<>>}
    ELSE LET shorter == Texts(n - 1)
         IN  shorter \cup {s \o t : s \in shorter, t \in LinkTokens}

LinkTexts == Texts(MaxTokens)

Result(k, v) == [job |-> 0, kind |-> k, val |-> v, n |-> 0]

LinkInit ==
    /\ parser_thread = 0
    /\ start_btn = TRUE
    /\ stop_btn = FALSE
    /\ guiPc = "idle"
    /\ pending \in {[mode |-> m, link |-> l, limit |-> 0] : m \in Modes, l \in LinkTexts}
    /\ created = 0
    /\ sigQueue = <<>>
    /\ job = [j \in Jobs |-> NoJob]
    /\ ev = <<>>

\* chat_username = self._clean_link(self.link), and _clean_link of its result
CleanLinkStep ==
    /\ pending.mode \in {"members", "messages"}
    /\ Len(ev) < 2
    /\ ev' = Append(ev, Result("clean_link",
                               CleanLink(IF ev = <<>> THEN pending.link ELSE ev[1].val)))
    /\ UNCHANGED <<guiVars, sigQueue, job>>

\* Comments/Reactions: parts = ...split("/"); len(parts) < 2; int(msg_id_str)
ParsePostStep ==
    /\ pending.mode \in {"comments", "reactions"}
    /\ ev = <<>>
    /\ LET parts == PostParts(pending.link)
       IN  ev' = IF Len(parts) < 2 THEN <<Result("invalid", <<>>)>>
                 ELSE IF ~IsInt(MsgIdStr(pending.link))
                 THEN <<Result("raised", <<parts[1], MsgIdStr(pending.link)>>)>>
                 ELSE <<Result("post", <<parts[1], Strip(MsgIdStr(pending.link))>>)>>
    /\ UNCHANGED <<guiVars, sigQueue, job>>

LinkNext == CleanLinkStep \/ ParsePostStep

LinkSpec == LinkInit /\ [][LinkNext]_vars

\* ============================================================ properties
\* The entries of es that job j produced and whose kind is in K.
Did(es, j, K) == {i \in DOMAIN es : es[i].job = j /\ es[i].kind \in K}

\* Job j has emitted finished or error, or has read is_running as False.
Terminal(j) == job[j].nCompleted > 0 \/ job[j].nFailed > 0 \/ job[j].observed

\* The step is one of worker j that leaves position p (terminate() apart).
Leaves(j, p) ==
    /\ job[j].pc = p
    /\ job'[j].pc \notin {p, "killed", "absent"}

SubmitCalls == {"call_send_code", "call_sign_in", "call_sign_in_password"}
AuthWaitPcs == {"wait_phone", "wait_code", "wait_pwd"}
AuthChkPcs == {"chk_phone", "chk_code", "chk_pwd"}
\* The positions at which an awaited remote call is in flight.
InFlightPcs == {"connect", "is_auth", "get_me", "send_code", "sign_in", "sign_in_pwd",
                "entity", "full", "admins", "fetch", "sender", "react", "disconnect"}

\* ------------------------------------------------------------------- C1
\* C1: over its whole run a worker emits at most one terminal event
\* (finished or error), and a worker whose run ends with neither is one
\* whose is_running flag stop() had set to False.
C1_OneTerminalEvent ==
    [][\A j \in Jobs :
         LET total == job[j].nCompleted + job[j].nFailed
                      + Cardinality(Did(ev', j, TerminalKinds))
         IN  /\ total <= 1
             /\ (isRunning(j) /\ job'[j].thread \notin {"running", "terminating"}
                   /\ total = 0) => ~job[j].is_running]_vars

\* A run has ended after exactly one finished and no error.
C1_Witness ==
    \E j \in Jobs : /\ job[j].thread = "finished"
                    /\ job[j].nCompleted = 1
                    /\ job[j].nFailed = 0

\* ------------------------------------------------------------------- C2
\* C2: once a worker has emitted finished or error, or has read is_running
\* as False, it emits no status line, progress value or prompt any more:
\* not in a later step, and not later in the same step.
C2_SilentAfterTerminal ==
    [][\A j \in Jobs :
         /\ Terminal(j) => Did(ev', j, ProgressKinds) = {}
         /\ (job'[j].observed /\ ~job[j].observed) => Did(ev', j, ProgressKinds) = {}
         /\ \A a \in Did(ev', j, TerminalKinds) :
               \A b \in Did(ev', j, ProgressKinds) : b < a]_vars

\* A worker that has read is_running as False is still at work on its buffer.
C2_Witness ==
    \E j \in Jobs : isRunning(j) /\ job[j].observed /\ job[j].pc = "xform"

\* ------------------------------------------------------------------- C3
\* C3: at any time at most one thread object is running.
C3_SingleActiveWorker == Cardinality({j \in Jobs : isRunning(j)}) <= 1

\* ------------------------------------------------------------------- C4
\* C4 as stated: once stop() has set is_running to False on a job, the job
\* emits no finished signal.
C4_NoCompletedAfterStop ==
    [][\A j \in Jobs : ~job[j].is_running => Did(ev', j, {"finished"}) = {}]_vars

\* C4, amended: if stop() has set is_running to False before the worker makes
\* the final check that guards finished_signal.emit, the job emits no
\* finished signal from then on (is_running never becomes True again); and a
\* finished signal is only emitted by a worker that never read is_running as
\* False, with every buffered item transformed.
C4_NoCompletedAfterObservedStop ==
    [][\A j \in Jobs :
         /\ (~job[j].is_running /\ job[j].pc # "emit_fin")
               => (Did(ev', j, {"finished"}) = {} /\ job'[j].pc # "emit_fin")
         /\ (~job[j].is_running /\ job'[j].thread # "absent") => ~job'[j].is_running
         /\ Did(ev', j, {"finished"}) # {}
               => /\ ~job[j].observed
                  /\ job[j].mode # "reactions" => job[j].parsed = job[j].fetched]_vars

\* A cancelled worker with a non-empty buffer stands at the final check.
C4_Witness ==
    \E j \in Jobs : /\ isRunning(j)
                    /\ ~job[j].is_running
                    /\ job[j].pc = "fin"
                    /\ job[j].fetched >= 1

\* ------------------------------------------------------------------- C5
\* C5: if stop() has set is_running to False while a remote call is in
\* flight, the worker emits no error signal when that call returns or raises.
C5_NoFailedAfterStop ==
    [][\A j \in Jobs :
         (~job[j].is_running /\ job[j].pc \in InFlightPcs)
            => Did(ev', j, {"error"}) = {}]_vars

\* ------------------------------------------------------------------- C6
\* C6: when is_user_authorized() has answered True, this call of ensure_auth
\* has emitted and emits no prompt and makes no send_code_request or sign_in
\* call; when get_me() returns it emits the one status line with the name and
\* returns True (and it never returns False: the only other way out is an
\* exception of get_me()).
C6_AuthorizedShortCircuit ==
    [][\A j \in Jobs :
         /\ job[j].pc = "get_me"
               => /\ job[j].authCalls \cap (PromptKinds \cup SubmitCalls) = {}
                  /\ Did(ev', j, PromptKinds \cup SubmitCalls) = {}
         /\ Leaves(j, "get_me")
               => \/ /\ Did(ev', j, {"raised"}) # {}
                     /\ job'[j].pc = "except"
                     /\ Did(ev', j, StatusKinds \cup TerminalKinds) = {}
                  \/ /\ job'[j].authOk
                     /\ ev'[1].kind = "status_me"
                     /\ Did(ev', j, StatusKinds) = {1}]_vars

\* ensure_auth has just returned True through the status line of get_me().
C6_Witness ==
    \E i \in DOMAIN ev :
        /\ ev[i].kind = "status_me"
        /\ ev[i].job \in Jobs
        /\ job[ev[i].job].authOk

C8_CancelAtPoll ==
    [][\A j \in Jobs :
         /\ (~job[j].is_running /\ \E p \in AuthWaitPcs : Leaves(j, p))
               => (job'[j].pc \in AuthChkPcs /\ Did(ev', j, HandledKinds \cup SubmitCalls) = {})
         /\ (~job[j].is_running /\ \E p \in AuthChkPcs : Leaves(j, p))
               => /\ job'[j].pc = "disconnect"
                  /\ ~job'[j].authOk
                  /\ job'[j].nFailed = 0
                  /\ Did(ev', j, HandledKinds \cup SubmitCalls) = {}]_vars

\* The slot holds a value at the check that finds is_running False.
C8_Witness ==
    \E j \in Jobs : /\ isRunning(j)
                    /\ job[j].pc \in {"chk_phone", "chk_code"}
                    /\ ~job[j].is_running
                    /\ job[j].auth_code # None

\* ------------------------------------------------------------------- C9
\* C9: when send_code_request, sign_in with the code or sign_in with the
\* password raises an exception other than FloodWaitError and
\* SessionPasswordNeededError, ensure_auth emits exactly one error signal and
\* returns False: parse() goes to cleanup with no further prompt and no
\* further call but disconnect.
C9_SubmissionFailure ==
    [][\A j \in Jobs :
         /\ (job[j].pc \in {"send_code", "sign_in", "sign_in_pwd"}
               /\ 1 \in Did(ev', j, {"raised"}))
               => /\ Cardinality(Did(ev', j, {"error"})) = 1
                  /\ Did(ev', j, ProgressKinds \cup (CallKinds \ {"call_disconnect"})) = {}
                  /\ job'[j].pc = "disconnect"
                  /\ ~job'[j].authOk
         /\ Leaves(j, "disconnect")
               => (job'[j].pc = "done" /\ ev' = <<>>)]_vars

\* A submission has just failed: one error signal, then cleanup.
C9_Witness ==
    \E j \in Jobs : /\ job[j].pc = "disconnect"
                    /\ ~job[j].authOk
                    /\ job[j].nFailed = 1
                    /\ 1 \in Did(ev, j, {"raised"})
                    /\ 2 \in Did(ev, j, {"error"})

C11_ZeroLimitEmpty ==
    [][\A j \in Jobs :
         \A i \in Did(ev', j, {"finished"}) :
            job[j].limit = 0 => ev'[i].n = 0]_vars

\* ------------------------------------------------------------------ C12
\* C12: the finished signal of ReactionsParserThread carries at most `limit`
\* records, also when the response holds more users than that.
C12_ReactionsAtMostLimit ==
    [][\A j \in Jobs :
         \A i \in Did(ev', j, {"finished"}) :
            job[j].mode = "reactions" => ev'[i].n <= job[j].limit]_vars

\* The form <channel>/<digits>[?query] with an optional https://t.me/ or
\* t.me/ prefix and an optional leading @: the pairs (handle, digits) a text
\* of that form stands for (none when it has not that form).
HandleChars == {"c", "t", "m", "e", "h", "p", "s"}
FirstIndex(s, c) ==
    IF \E i \in 1..Len(s) : s[i] = c
    THEN CHOOSE i \in 1..Len(s) : s[i] = c /\ \A h \in 1..(i - 1) : s[h] # c
    ELSE 0
ExpectedPost(s) ==
    LET a == IF IsPrefix(HttpsPrefix, s) THEN SubSeq(s, Len(HttpsPrefix) + 1, Len(s))
             ELSE IF IsPrefix(TmePrefix, s) THEN SubSeq(s, Len(TmePrefix) + 1, Len(s))
             ELSE s
        b == IF a # <<>> /\ Head(a) = "@" THEN Tail(a) ELSE a
        k == FirstIndex(b, "/")
        h == SubSeq(b, 1, k - 1)
        rest == SubSeq(b, k + 1, Len(b))
        q == FirstIndex(rest, "?")
        d == IF q = 0 THEN rest ELSE SubSeq(rest, 1, q - 1)
    IN  IF /\ k > 0
           /\ h # <<>> /\ \A i \in 1..Len(h) : h[i] \in HandleChars
           /\ d # <<>> /\ \A i \in 1..Len(d) : d[i] \in Digits
        THEN {<<h, d>>}
        ELSE {}

\* ------------------------------------------------------------------ C13
\* C13: a comments or reactions job whose link has not the form
\* <channel>/<digits>[?...] never creates or connects its client.
C13_InvalidLinkNoConnection ==
    \A j \in Jobs :
        (job[j].mode \in {"comments", "reactions"} /\ ExpectedPost(job[j].link) = {})
            => job[j].client = "none"

\* ------------------------------------------------------------------ C14
\* C14: the link parsing of the comments and reactions collectors reports an
\* invalid link for a text without "/", and for a text of the form
\* [https://t.me/ | t.me/][@]<channel>/<digits>[?query] it yields the bare
\* channel handle and the digits.
C14_PostLinkParse ==
    (pending.mode \in {"comments", "reactions"} /\ ev # <<>>)
        => /\ FirstIndex(pending.link, "/") = 0 => ev[1].kind = "invalid"
           /\ \A e \in ExpectedPost(pending.link) :
                 ev[1].kind = "post" /\ ev[1].val = e

\* ------------------------------------------------------------------ C15
\* C15: _clean_link applied to its own result returns that result.
C15_CleanLinkIdempotent ==
    (Len(ev) = 2 /\ ev[1].kind = "clean_link") => ev[2].val = ev[1].val

\* ------------------------------------------------------------------ C16
\* C16: when stop_parsing returns from its wait, the thread it stopped is no
\* longer running.
C16_StoppedWhenStopReturns ==
    [][(guiPc = "stop_wait" /\ guiPc' = "idle")
          => job'[parser_thread].thread \notin {"running", "terminating"}]_vars

\* ------------------------------------------------------------------ C17
\* C17: an exception raised by a remote call of a job body while is_running
\* is True is caught inside the worker and leads to the error signal: the
\* step emits it or goes to the except clause that does, and no exception
\* ever leaves parse().
C17_FailuresBecomeFailed ==
    [][\A j \in Jobs :
         /\ ~job'[j].escaped
         /\ (job[j].is_running /\ job[j].pc \in InFlightPcs \ {"disconnect"}
               /\ 1 \in Did(ev', j, {"raised"}))
               => (job'[j].pc = "except" \/ Did(ev', j, {"error"}) # {})]_vars

\* ------------------------------------------------------------------ C18
\* C18: the value handed to send_code_request or sign_in is never the empty
\* string that handle_auth_code / handle_auth_password store for a cancelled
\* or empty dialog.
C18_EmptyNotSubmitted ==
    [][\A j \in Jobs :
         \A i \in Did(ev', j, SubmitCalls) : ev'[i].val.t # "empty"]_vars

\* ------------------------------------------------------------------ C19
\* C19: ensure_client calls connect only when the client is not connected,
\* a job never gets a second client object (self.client, once set, is never
\* None again), and the call that ensure_auth makes after a FloodWaitError
\* sleep, on a connected client, changes nothing and goes on to
\* is_user_authorized.
C19_EnsureClientIdempotent ==
    [][\A j \in Jobs :
         /\ Did(ev', j, {"call_connect"}) # {}
               => /\ job[j].client # "connected"
                  /\ Cardinality(Did(ev', j, {"call_connect"})) = 1
         /\ (job[j].client # "none" /\ job'[j].thread # "absent")
               => job'[j].client # "none"
         /\ (Leaves(j, "flood_sleep") /\ job[j].client = "connected")
               => /\ job'[j].client = "connected"
                  /\ job'[j].pc = "is_auth"
                  /\ Did(ev', j, {"call_connect"}) = {}]_vars

\* ensure_client has just been called a second time, on a connected client.
C19_Witness ==
    \E j \in Jobs : /\ isRunning(j)
                    /\ job[j].pc = "is_auth"
                    /\ job[j].floods >= 1
                    /\ job[j].client = "connected"
                    /\ Did(ev, j, {"call_is_authorized"}) # {}
                    /\ Did(ev, j, {"call_connect"}) = {}

\* ------------------------------------------------------------------ C20
\* C20: once stop() has set is_running to False, the worker starts no
\* further get_sender call.
C20_NoSenderCallAfterStop ==
    [][\A j \in Jobs :
         ~job[j].is_running => Did(ev', j, {"call_get_sender"}) = {}]_vars

\* ------------------------------------------------------------------ C21
\* C21: when the admin iteration of the members collector raises, before the
\* first admin or after some, the job goes on to the participant iteration
\* with an empty admin set, and from then on no record of parsed_data has the
\* admin flag set.
C21_AdminFailureFallsBack ==
    [][\A j \in Jobs :
         /\ (job[j].pc = "admins" /\ 1 \in Did(ev', j, {"raised"}))
               => /\ job'[j].pc = "fetch"
                  /\ Did(ev', j, {"call_iter"}) # {}
                  /\ job'[j].admins = 0
         /\ job'[j].adminsFailed => job'[j].flagged = 0]_vars

\* ------------------------------------------------------------------ C22
\* C22: a worker makes a get_entity, iteration or raw request call only after
\* ensure_auth has returned True in this run (which it does when get_me or a
\* sign_in call returns), makes an iteration or raw request call only
\* after get_entity has returned, and emits finished only after both.
EntityCalls == {"call_get_entity"}
PageCalls == {"call_full_channel", "call_iter_admins", "call_iter", "call_reactions"}
C22_LifecycleOrder ==
    [][\A j \in Jobs :
         /\ Did(ev', j, EntityCalls \cup PageCalls) # {} => job'[j].authOk
         /\ Did(ev', j, PageCalls) # {} => job'[j].resolved
         /\ Did(ev', j, {"finished"}) # {} => (job[j].authOk /\ job[j].resolved)
         /\ (job'[j].authOk /\ ~job[j].authOk)
               => /\ job[j].pc \in {"get_me", "sign_in", "sign_in_pwd"}
                  /\ 1 \notin Did(ev', j, RemoteKinds)
         /\ (job'[j].resolved /\ ~job[j].resolved)
               => /\ job[j].pc = "entity"
                  /\ job[j].authOk
                  /\ 1 \notin Did(ev', j, RemoteKinds)]_vars

\* A worker that signed in with a password has emitted finished.
C22_Witness ==
    \E i \in DOMAIN ev :
        /\ ev[i].kind = "finished"
        /\ ev[i].job \in Jobs
        /\ job[ev[i].job].pc = "disconnect"
        /\ job[ev[i].job].authOk
        /\ job[ev[i].job].resolved
        /\ job[ev[i].job].auth_password # None

\* ------------------------------------------------------------------ C23
\* C23: once stop() has set is_running to False on a job, its worker emits
\* no auth_code_needed and no auth_password_needed signal any more.
C23_NoPromptAfterStop ==
    [][\A j \in Jobs : ~job[j].is_running => Did(ev', j, PromptKinds) = {}]_vars

\* ------------------------------------------------------------------ C24
\* The step ends the run of worker j without terminate(): run() returns or an
\* exception leaves it.  (A thread object nothing refers to is freed at once.)
Ends(j) ==
    /\ isRunning(j)
    /\ \/ job'[j].thread = "finished"
       \/ job[j].thread = "running" /\ job'[j].thread = "absent"

C25_SlotEmptyAtPrompt ==
    [][\A j \in Jobs : Did(ev', j, {"code"}) # {} => job[j].auth_code = None]_vars

\* ------------------------------------------------------------------ C26
\* C26: the value a worker takes from its slot as phone number or login
\* code, and the password it hands to sign_in, is an answer to a prompt this
\* same worker emitted.
C26_AnswerReachesItsJob ==
    [][\A j \in Jobs :
         /\ job'[j].phone.for \in {0, j}
         /\ job'[j].code.for \in {0, j}
         /\ \A i \in Did(ev', j, {"call_sign_in_password"}) : ev'[i].val.for = j]_vars

\* ------------------------------------------------------------------ C27
WarnKinds == {"warn_fields", "warn_number", "warn_not_post"}

\* The inputs start_parsing rejects at its post-link check.
NotPostInput(p) == p.mode \in {"comments", "reactions"} /\ ~IsPostLink(Strip(p.link))

\* C27: a start request that ends in a warning (a required field empty, the
\* limit not a number, the link not a post link in comments or reactions
\* mode) creates no thread object, leaves self.parser_thread and every
\* thread object as they were, and has not called stop() on a running
\* thread: neither in the step that shows the warning nor, for a request
\* that waits for the previous thread first, in the step before the wait.
C27_RejectedStartNoEffect ==
    [][/\ Did(ev', 0, WarnKinds) # {}
            => /\ UNCHANGED <<parser_thread, created, job>>
               /\ guiPc = "idle"
       /\ (guiPc = "idle" /\ guiPc' = "start_wait" /\ NotPostInput(pending'))
            => UNCHANGED job]_vars
====
